---- MODULE Spec2Model ----
(***************************************************************************)
(* State-machine model of server.py (hitster-randomizer backend): the      *)
(* Flask handlers of the Spotify authorization flow, the lazy token        *)
(* refresh, the track pick / playback handlers and the game reset, over    *)
(* the MongoDB collections `sessions` and `tracks`, together with the      *)
(* remote token service and the store's TTL monitor.                       *)
(*                                                                         *)
(* Every handler runs in a worker (Procs); workers interleave at their     *)
(* network calls.  A step of a worker is: the arrival of the response it   *)
(* waits for, the local code that follows, and the sending of the next     *)
(* remote call.  Each store operation (find_one, update_one, insert_one,   *)
(* delete_one, delete_many) is atomic, as MongoDB makes it.                *)
(***************************************************************************)
EXTENDS Integers, Sequences, FiniteSets, TLC

\* ------------------------------------------------------------------ bounds
MaxSessions == 2    \* session documents ever inserted (ObjectIds 1..MaxSessions)
NumStates   == 2    \* distinct values random.randint may draw for `state`
NumProcs    == 2    \* concurrently served requests
MaxRequests == 4    \* requests served in one behaviour
MaxTime     == 2    \* clock ticks
MaxTokens   == 3    \* token grants the remote service issues
MaxDepth    == 2    \* nested get_playlist_tracks calls before RecursionError
ExpiresIn   == 1    \* lifetime, in ticks, of an access token ('expires_in')

Null == 0           \* None / absent field

Procs       == 1..NumProcs
StateValues == 1..NumStates
SessionIds  == 1..MaxSessions

\* A session_id string of a request: the 24 hex digits of an ObjectId, written in
\* lower or in upper case.  ObjectId() parses both; str() writes lower case.
SidStrings  == SessionIds \X {"lower", "upper"}
ObjectId(s) == s[1]
Str(id)     == <<id, "lower">>

\* The remote service's track listing of each playlist id: playlist 1 lists
\* tracks 1 and 2, playlist 2 lists nothing.
RemoteListing == << {1, 2}, {} >>
PlaylistIds   == 1..Len(RemoteListing)
TrackIds      == UNION {RemoteListing[i] : i \in PlaylistIds}

VARIABLES
    sessions,       \* collection sessions: [existing _id -> document]
    tracks,         \* collection tracks: [<<session_id, spotify_id>> -> number of documents]
    nextId,         \* next ObjectId the driver generates
    now,            \* wall clock (datetime.utcnow())
    tokExp,         \* remote service: tokExp[t] = expiry time of access token t
    remoteRefresh,  \* remote service: the refresh tokens it still honours
    procs,          \* procs[p]: the request worker p serves, its position and locals
    nreq,           \* requests served so far
    playlists       \* collection playlists: [existing playlist_id -> document]

vars == <<sessions, tracks, nextId, now, tokExp, remoteRefresh, procs, nreq, playlists>>

\* ------------------------------------------------------------------ documents
\* The session document spotify_authorize inserts.
NewSession(state) ==
    [ state                 |-> state,
      created_at            |-> now,
      is_active             |-> FALSE,
      tracks_played         |-> << >>,
      spotify_access_token  |-> Null,
      spotify_refresh_token |-> Null,
      token_expires_at      |-> Null,
      playlist_theme        |-> Null ]

\* The TTL index on token_expires_at (expireAfterSeconds=0): the document's
\* token_expires_at is a date and has passed.
Expired(doc) == doc.token_expires_at # Null /\ doc.token_expires_at <= now

\* A worker that serves no request.
IdleProc ==
    [ op |-> "none", pc |-> "idle", sid |-> Null, pl |-> Null, st |-> Null,
      code |-> "none", tok |-> Null, rtok |-> Null, track |-> Null, depth |-> 0,
      nref |-> 0, tp0 |-> << >>, th0 |-> Null, form |-> "lower", stale |-> Null,
      icon |-> "none",
      result |-> "none" ]

\* sessions.find_one({'_id': ObjectId(session_id)}) finds a document.
Found(sid) == sid \in DOMAIN sessions

\* Mutant: the filter is lost, every document matches.
WithState_Any(state) == DOMAIN sessions

\* find({'state': state}): the documents whose state field is that string.
WithState(state) == {i \in DOMAIN sessions : sessions[i].state = state}

\* find({'state': state, 'is_active': False})
PendingWithState(state) == {i \in WithState(state) : ~sessions[i].is_active}

\* A request may be taken up by worker p.
CanStart(p) ==
    /\ procs[p].pc \in {"idle", "done"}
    /\ nreq < MaxRequests

Begin(p, op) == [IdleProc EXCEPT !.op = op]

\* The handler returns its response: the worker keeps the request's key
\* (session id or state) and the response (its kind, the track it names).
Finish(r, result) ==
    [IdleProc EXCEPT !.op = r.op, !.pc = "done", !.result = result, !.sid = r.sid,
                     !.st = r.st, !.track = r.track]

\* ------------------------------------------------------------------ remote token service
\* The access token is honoured by the resource API at the current time.
TokenValid(t) == t \in DOMAIN tokExp /\ now < tokExp[t]

\* The remote service can still issue a grant.
CanIssue == Len(tokExp) < MaxTokens

\* The number of the grant issued next; access and refresh tokens of one
\* grant carry the grant's number.
NextGrant == Len(tokExp) + 1

\* ------------------------------------------------------------------ authorize
\* Mutant: the collection has no unique index on `state`.
UniqueStateIndexAdmits_NoIndex(state) == TRUE

\* The unique partial index on `state` (strings only) admits the insert.
UniqueStateIndexAdmits(state) == WithState(state) = {}

\* spotify_authorize, first half: draw the state, delete_one({'state': state}).
AuthorizeDelete(p) ==
    /\ CanStart(p)
    /\ nextId + Cardinality({q \in Procs : procs[q].pc = "auth_insert"}) <= MaxSessions
    /\ \E s \in StateValues :
         /\ procs' = [procs EXCEPT ![p] = [Begin(p, "authorize") EXCEPT !.st = s, !.pc = "auth_insert"]]
         /\ IF WithState(s) = {}
              THEN sessions' = sessions
              ELSE \E d \in WithState(s) :
                     sessions' = [i \in DOMAIN sessions \ {d} |-> sessions[i]]
    /\ nreq' = nreq + 1
    /\ UNCHANGED <<tracks, nextId, now, tokExp, remoteRefresh, playlists>>

\* spotify_authorize, second half: insert_one, then the redirect; a
\* DuplicateKeyError of the unique index ends in the 500 answer.
AuthorizeInsert(p) ==
    /\ procs[p].pc = "auth_insert"
    /\ IF UniqueStateIndexAdmits(procs[p].st)
         THEN /\ sessions' = [i \in DOMAIN sessions \cup {nextId} |->
                                IF i = nextId THEN NewSession(procs[p].st) ELSE sessions[i]]
              /\ nextId' = nextId + 1
              /\ procs' = [procs EXCEPT ![p] = Finish([@ EXCEPT !.sid = nextId], "redirect")]
         ELSE /\ procs' = [procs EXCEPT ![p] = Finish(@, "setup_failed")]
              /\ UNCHANGED <<sessions, nextId>>
    /\ UNCHANGED <<tracks, now, tokExp, remoteRefresh, nreq, playlists>>

\* ------------------------------------------------------------------ callback
\* Mutant: the $set stores the tokens only; is_active and state are left to
\* a later update.
Activated_TokensOnly(doc, grant) ==
    [doc EXCEPT !.spotify_access_token  = grant,
                !.spotify_refresh_token = grant,
                !.token_expires_at      = now + ExpiresIn]

\* Mutant: the $set leaves the state field as it is.
Activated_KeepState(doc, grant) ==
    [doc EXCEPT !.spotify_access_token  = grant,
                !.spotify_refresh_token = grant,
                !.token_expires_at      = now + ExpiresIn,
                !.is_active             = TRUE]

\* The $set of spotify_callback on the matched document.
Activated(doc, grant) ==
    [doc EXCEPT !.spotify_access_token  = grant,
                !.spotify_refresh_token = grant,
                !.token_expires_at      = now + ExpiresIn,
                !.is_active             = TRUE,
                !.state                 = Null]

\* spotify_callback up to the token request: the error parameter, the lookup
\* of a pending session by state, the POST of the code.
CallbackFind(p) ==
    /\ CanStart(p)
    /\ \E s \in StateValues, code \in {"good", "bad"}, error \in BOOLEAN :
         LET r == [Begin(p, "callback") EXCEPT !.st = s, !.code = code] IN
         IF error
           THEN procs' = [procs EXCEPT ![p] = Finish(r, "error")]
           ELSE IF PendingWithState(s) = {}
             THEN procs' = [procs EXCEPT ![p] = Finish(r, "invalid_state")]
             ELSE \E i \in PendingWithState(s) :
                    procs' = [procs EXCEPT ![p] = [r EXCEPT !.sid = i, !.pc = "cb_exchange"]]
    /\ nreq' = nreq + 1
    /\ UNCHANGED <<sessions, tracks, nextId, now, tokExp, remoteRefresh, playlists>>

\* Mutant: the except clause gives the state value up.
ExchangeFailed_ClearState(doc) == [doc EXCEPT !.state = Null]

\* The matched document after raise_for_status has raised: the except clause
\* logs and redirects, it writes nothing.
ExchangeFailed(doc) == doc

\* spotify_callback from the token response on: raise_for_status, update_one
\* by _id, the redirect with the session id.
CallbackExchange(p) ==
    /\ procs[p].pc = "cb_exchange"
    /\ \/ /\ procs[p].code = "good"
          /\ CanIssue
          /\ tokExp' = Append(tokExp, now + ExpiresIn)
          /\ remoteRefresh' = remoteRefresh \cup {NextGrant}
          /\ IF Found(procs[p].sid)
               THEN sessions' = [sessions EXCEPT ![procs[p].sid] = Activated(@, NextGrant)]
               ELSE sessions' = sessions
          /\ procs' = [procs EXCEPT ![p] = Finish(@, "ok")]
       \/ /\ procs' = [procs EXCEPT ![p] = Finish(@, "auth_failed")]
          /\ IF Found(procs[p].sid)
               THEN sessions' = [sessions EXCEPT ![procs[p].sid] = ExchangeFailed(@)]
               ELSE sessions' = sessions
          /\ UNCHANGED <<tokExp, remoteRefresh>>
    /\ UNCHANGED <<tracks, nextId, now, nreq, playlists>>

\* ------------------------------------------------------------------ get_playlist_tracks / refresh_token
\* Mutant: the handler tests `tracks_list is None`; an empty list reaches
\* random.choice, whose IndexError ends in the generic 400.
NoTracks_Generic(r) == Finish(r, "error")

\* get_playlist_tracks returned None or an empty list: the handler's 400.
NoTracks(r) == Finish(r, "no_tracks")

\* get_playlist_tracks returned a non-empty list and random.choice picked
\* `track`: get_next_track goes on to store it, play_next_song to play_track.
Picked(r, track) ==
    [r EXCEPT !.track = track, !.tok = Null,
              !.pc = IF r.op = "get_next_track" THEN "insert" ELSE "pt_find"]

\* The Authorization header is built from the document just read.  (stale
\* remembers a token taken although the document's token_expires_at had
\* passed and the remote service still honoured the document's refresh token.)
TakeToken(r, doc) ==
    [r EXCEPT !.tok   = doc.spotify_access_token,
              !.stale = IF Expired(doc) /\ doc.spotify_refresh_token \in remoteRefresh
                          THEN doc.spotify_access_token
                          ELSE r.stale]

\* Mutant: the test of the access token is left out.
HasAccessToken_Unchecked(doc) == TRUE

\* session.get('spotify_access_token') is truthy.
HasAccessToken(doc) == doc.spotify_access_token # Null

\* get_playlist_tracks: find_one, the token check, the GET of the playlist.
GptFind(p) ==
    /\ procs[p].pc = "gpt_find"
    /\ LET r == procs[p] IN
       IF ~Found(r.sid) \/ ~HasAccessToken(sessions[r.sid])
         THEN procs' = [procs EXCEPT ![p] = NoTracks(r)]
         ELSE procs' = [procs EXCEPT ![p] =
                          [TakeToken(r, sessions[r.sid]) EXCEPT !.pc = "gpt_playlist"]]
    /\ UNCHANGED <<sessions, tracks, nextId, now, tokExp, remoteRefresh, nreq, playlists>>

\* The except-HTTPError branch of get_playlist_tracks on a 401: it calls
\* refresh_token(session_id).
On401(r) == [r EXCEPT !.pc = "rt_find", !.tok = Null]

\* The answer to the playlist GET: 200 (the GET of the tracks follows), 401
\* for a token the service no longer accepts, or another failure (None).
GptPlaylist(p) ==
    /\ procs[p].pc = "gpt_playlist"
    /\ LET r == procs[p] IN
       IF ~TokenValid(r.tok)
         THEN procs' = [procs EXCEPT ![p] = On401(r)]
         ELSE \/ procs' = [procs EXCEPT ![p] = [r EXCEPT !.pc = "gpt_tracks"]]
              \/ procs' = [procs EXCEPT ![p] = NoTracks(r)]
    /\ UNCHANGED <<sessions, tracks, nextId, now, tokExp, remoteRefresh, nreq, playlists>>

\* The answer to the tracks GET: 200 with the listing (the handler picks at
\* random, or answers 400 on an empty listing), 401, or another failure.
GptTracks(p) ==
    /\ procs[p].pc = "gpt_tracks"
    /\ LET r == procs[p] IN
       IF ~TokenValid(r.tok)
         THEN procs' = [procs EXCEPT ![p] = On401(r)]
         ELSE \/ IF RemoteListing[r.pl] = {}
                   THEN procs' = [procs EXCEPT ![p] = NoTracks(r)]
                   ELSE \E t \in RemoteListing[r.pl] :
                          procs' = [procs EXCEPT ![p] = Picked(r, t)]
              \/ procs' = [procs EXCEPT ![p] = NoTracks(r)]
    /\ UNCHANGED <<sessions, tracks, nextId, now, tokExp, remoteRefresh, nreq, playlists>>

\* refresh_token has returned (True or False alike): get_playlist_tracks
\* calls itself again.  Past the interpreter's recursion limit the nested
\* call's find_one / requests.get raises RecursionError inside its try block,
\* the except-Exception clause returns None, and None is handed up through
\* every level to the handler.
AfterRefresh(r) ==
    IF r.depth < MaxDepth
      THEN [r EXCEPT !.depth = r.depth + 1, !.rtok = Null, !.pc = "gpt_find"]
      ELSE NoTracks(r)

\* refresh_token: find_one, the refresh-token check, the POST to the token
\* endpoint.
RtFind(p) ==
    /\ procs[p].pc = "rt_find"
    /\ LET r == procs[p] IN
       IF ~Found(r.sid) \/ sessions[r.sid].spotify_refresh_token = Null
         THEN procs' = [procs EXCEPT ![p] = AfterRefresh(r)]
         ELSE procs' = [procs EXCEPT ![p] =
                          [r EXCEPT !.rtok = sessions[r.sid].spotify_refresh_token,
                                    !.nref = r.nref + 1,
                                    !.pc = "rt_wait"]]
    /\ UNCHANGED <<sessions, tracks, nextId, now, tokExp, remoteRefresh, nreq, playlists>>

\* The $set of refresh_token; data is the token endpoint's JSON answer.
RefreshSet(doc, data) ==
    [doc EXCEPT !.spotify_access_token = data.access_token,
                !.token_expires_at     = now + data.expires_in]

\* The answer to the refresh POST: a new access token, with or without a
\* rotated refresh token, stored by update_one; or a failure (False).
RtWait(p) ==
    /\ procs[p].pc = "rt_wait"
    /\ LET r == procs[p] IN
       \/ /\ r.rtok \in remoteRefresh
          /\ CanIssue
          /\ \E rotate \in BOOLEAN :
               LET data == [access_token  |-> NextGrant,
                            refresh_token |-> IF rotate THEN NextGrant ELSE Null,
                            expires_in    |-> ExpiresIn] IN
               /\ tokExp' = Append(tokExp, now + ExpiresIn)
               /\ remoteRefresh' = IF rotate
                                     THEN (remoteRefresh \ {r.rtok}) \cup {NextGrant}
                                     ELSE remoteRefresh
               /\ IF Found(r.sid)
                    THEN sessions' = [sessions EXCEPT ![r.sid] = RefreshSet(@, data)]
                    ELSE sessions' = sessions
          /\ procs' = [procs EXCEPT ![p] = AfterRefresh(r)]
       \/ /\ procs' = [procs EXCEPT ![p] = AfterRefresh(r)]
          /\ UNCHANGED <<sessions, tokExp, remoteRefresh>>
    /\ UNCHANGED <<tracks, nextId, now, nreq, playlists>>

\* ------------------------------------------------------------------ get_next_track / play_next_song
\* The head of both handlers: find_one by _id, $set playlist_theme, then the
\* call of get_playlist_tracks.
HandlerEntry(p, op) ==
    /\ CanStart(p)
    /\ \E sid \in SessionIds, pl \in PlaylistIds :
         LET r == [Begin(p, op) EXCEPT !.sid = sid, !.pl = pl] IN
         IF ~Found(sid)
           THEN /\ procs' = [procs EXCEPT ![p] = Finish(r, "invalid_session")]
                /\ sessions' = sessions
           ELSE /\ procs' = [procs EXCEPT ![p] =
                               [r EXCEPT !.tp0 = sessions[sid].tracks_played,
                                         !.th0 = sessions[sid].playlist_theme,
                                         !.pc = "gpt_find"]]
                /\ sessions' = [sessions EXCEPT ![sid].playlist_theme = pl]
    /\ nreq' = nreq + 1
    /\ UNCHANGED <<tracks, nextId, now, tokExp, remoteRefresh, playlists>>

GetNextTrack(p) == HandlerEntry(p, "get_next_track")

PlayNextSong(p) == HandlerEntry(p, "play_next_song")

\* tracks.insert_one of the picked track, owned by str(session['_id']).
Insert(p) ==
    /\ procs[p].pc = "insert"
    /\ tracks' = [tracks EXCEPT ![<<Str(procs[p].sid), procs[p].track>>] = @ + 1]
    /\ procs' = [procs EXCEPT ![p].pc = "push"]
    /\ UNCHANGED <<sessions, nextId, now, tokExp, remoteRefresh, nreq, playlists>>

\* Mutant: the update writes the id with $set instead of $push.
Pushed_Set(doc, track) == [doc EXCEPT !.tracks_played = <<track>>]

\* Mutant: the update uses $addToSet, which skips an id already present.
Pushed_AddToSet(doc, track) ==
    IF \E n \in DOMAIN doc.tracks_played : doc.tracks_played[n] = track
      THEN doc
      ELSE [doc EXCEPT !.tracks_played = Append(@, track)]

\* The $push of the track id onto tracks_played.
Pushed(doc, track) == [doc EXCEPT !.tracks_played = Append(@, track)]

\* update_one with the $push (a missing document matches nothing), then the
\* 200 answer with the track.
Push(p) ==
    /\ procs[p].pc = "push"
    /\ IF Found(procs[p].sid)
         THEN sessions' = [sessions EXCEPT ![procs[p].sid] = Pushed(@, procs[p].track)]
         ELSE sessions' = sessions
    /\ procs' = [procs EXCEPT ![p] = Finish(@, "ok")]
    /\ UNCHANGED <<tracks, nextId, now, tokExp, remoteRefresh, nreq, playlists>>

\* ------------------------------------------------------------------ play_track
\* play_track: find_one, the token check, the GET of the devices.
PtFind(p) ==
    /\ procs[p].pc = "pt_find"
    /\ LET r == procs[p] IN
       IF ~Found(r.sid) \/ sessions[r.sid].spotify_access_token = Null
         THEN procs' = [procs EXCEPT ![p] = Finish(r, "play_failed")]
         ELSE procs' = [procs EXCEPT ![p] =
                          [TakeToken(r, sessions[r.sid]) EXCEPT !.pc = "pt_devices"]]
    /\ UNCHANGED <<sessions, tracks, nextId, now, tokExp, remoteRefresh, nreq, playlists>>

\* The answer to the devices GET.  Its status is not checked: the JSON body
\* of a 401 has no 'devices', which reads as no device.  With a device listed
\* the PUT of the play command follows.
PtDevices(p) ==
    /\ procs[p].pc = "pt_devices"
    /\ LET r == procs[p] IN
       IF ~TokenValid(r.tok)
         THEN procs' = [procs EXCEPT ![p] = Finish(r, "no_device")]
         ELSE \/ procs' = [procs EXCEPT ![p] = Finish(r, "no_device")]
              \/ procs' = [procs EXCEPT ![p] = [r EXCEPT !.pc = "pt_play"]]
              \/ procs' = [procs EXCEPT ![p] = Finish(r, "play_failed")]
    /\ UNCHANGED <<sessions, tracks, nextId, now, tokExp, remoteRefresh, nreq, playlists>>

\* Mutant: play_track takes every answer to the PUT for a success.
PlayAnswer_AnyStatus(r, status) == [r EXCEPT !.pc = "insert", !.tok = Null]

\* play_track after the answer to the play PUT: any status but 204 is
\* (False, text), and play_next_song answers 400 with it.
PlayAnswer(r, status) ==
    IF status = 204
      THEN [r EXCEPT !.pc = "insert", !.tok = Null]
      ELSE Finish(r, "play_failed")

\* The answer to the play PUT: 204, 401 for a token no longer honoured, or
\* another refusal (no Premium account, device gone).
PtPlay(p) ==
    /\ procs[p].pc = "pt_play"
    /\ LET r == procs[p] IN
       IF ~TokenValid(r.tok)
         THEN procs' = [procs EXCEPT ![p] = PlayAnswer(r, 401)]
         ELSE \E status \in {204, 403} :
                procs' = [procs EXCEPT ![p] = PlayAnswer(r, status)]
    /\ UNCHANGED <<sessions, tracks, nextId, now, tokExp, remoteRefresh, nreq, playlists>>

\* ------------------------------------------------------------------ reset_game
\* The $set of reset_game.
Cleared(doc) == [doc EXCEPT !.tracks_played = << >>, !.playlist_theme = Null]

\* reset_game: find_one by _id, update_one with the $set.
ResetUpdate(p) ==
    /\ CanStart(p)
    /\ \E s \in SidStrings :
         LET r == [Begin(p, "reset") EXCEPT !.sid = ObjectId(s), !.form = s[2]] IN
         IF ~Found(ObjectId(s))
           THEN /\ procs' = [procs EXCEPT ![p] = Finish(r, "invalid_session")]
                /\ sessions' = sessions
           ELSE /\ procs' = [procs EXCEPT ![p] = [r EXCEPT !.pc = "rs_delete"]]
                /\ sessions' = [sessions EXCEPT ![ObjectId(s)] = Cleared(@)]
    /\ nreq' = nreq + 1
    /\ UNCHANGED <<tracks, nextId, now, tokExp, remoteRefresh, playlists>>

\* reset_game: tracks.delete_many({'session_id': session_id}) with the
\* request's string, then the 200 answer.
ResetDelete(p) ==
    /\ procs[p].pc = "rs_delete"
    /\ tracks' = [k \in DOMAIN tracks |->
                    IF k[1] = <<procs[p].sid, procs[p].form>> THEN 0 ELSE tracks[k]]
    /\ procs' = [procs EXCEPT ![p] = Finish(@, "ok")]
    /\ UNCHANGED <<sessions, nextId, now, tokExp, remoteRefresh, nreq, playlists>>

\* ------------------------------------------------------------------ environment
\* Time passes.
Tick ==
    /\ now < MaxTime
    /\ now' = now + 1
    /\ UNCHANGED <<sessions, tracks, nextId, tokExp, remoteRefresh, procs, nreq, playlists>>

\* The store's TTL monitor deletes an expired session.
Reap ==
    /\ \E d \in DOMAIN sessions :
         /\ Expired(sessions[d])
         /\ sessions' = [i \in DOMAIN sessions \ {d} |-> sessions[i]]
    /\ UNCHANGED <<tracks, nextId, now, tokExp, remoteRefresh, procs, nreq, playlists>>

\* ------------------------------------------------------------------ specification
Init ==
    /\ sessions = << >>
    /\ tracks = [k \in SidStrings \X TrackIds |-> 0]
    /\ nextId = 1
    /\ now = 0
    /\ tokExp = << >>
    /\ remoteRefresh = {}
    /\ procs = [p \in Procs |-> IdleProc]
    /\ nreq = 0
    /\ playlists = << >>

Next ==
    \/ \E p \in Procs : AuthorizeDelete(p)
    \/ \E p \in Procs : AuthorizeInsert(p)
    \/ \E p \in Procs : CallbackFind(p)
    \/ \E p \in Procs : CallbackExchange(p)
    \/ \E p \in Procs : GetNextTrack(p)
    \/ \E p \in Procs : PlayNextSong(p)
    \/ \E p \in Procs : GptFind(p)
    \/ \E p \in Procs : GptPlaylist(p)
    \/ \E p \in Procs : GptTracks(p)
    \/ \E p \in Procs : RtFind(p)
    \/ \E p \in Procs : RtWait(p)
    \/ \E p \in Procs : PtFind(p)
    \/ \E p \in Procs : PtDevices(p)
    \/ \E p \in Procs : PtPlay(p)
    \/ \E p \in Procs : Insert(p)
    \/ \E p \in Procs : Push(p)
    \/ \E p \in Procs : ResetUpdate(p)
    \/ \E p \in Procs : ResetDelete(p)
    \/ Tick
    \/ Reap

Spec == Init /\ [][Next]_vars

\* ------------------------------------------------------------------ playlists
\* The icon names update_playlist_icon admits.
VALID_ICONS ==
    {"jukebox", "boombox", "microphone", "bells",
     "music-note", "record-player", "guitar", "headphones"}

\* The icon get_playlists reports for a document without custom_icon.
DEFAULT_ICON == "music-note"

\* The custom_icon values a request body carries: two admitted names, a name
\* outside the list, the empty string.
RequestIcons == {"guitar", "jukebox", "piano", ""}

\* The documents the playlists collection holds when the server starts.  No
\* handler inserts into the collection; its documents are written by other
\* clients of the shared store.  "unset": the document has no custom_icon.
SeedEntries ==
    { [name |-> "mix",  custom_icon |-> "unset",   expires_at |-> 1],
      [name |-> "hits", custom_icon |-> "jukebox", expires_at |-> MaxTime + 1] }

SeedRegistries == UNION {[S -> SeedEntries] : S \in SUBSET PlaylistIds}

\* add_playlist.  find_one of the session, the JSON body, then the call of
\* parse_playlist_url: no module of the program defines or imports that name
\* (nor get_playlist_metadata), so the call raises NameError and the
\* except clause answers 400.  The handler holds no write to playlists.
AddPlaylistWith(p, sid, pl, body) ==
    /\ CanStart(p)
    /\ LET r == [Begin(p, "add_playlist") EXCEPT !.sid = sid, !.pl = pl] IN
       procs' = [procs EXCEPT ![p] =
                   IF ~Found(sid) THEN Finish(r, "invalid_session")
                   ELSE IF body = "no_url" THEN Finish(r, "url_required")
                   ELSE Finish(r, "error")]
    /\ nreq' = nreq + 1
    /\ UNCHANGED <<sessions, tracks, nextId, now, tokExp, remoteRefresh, playlists>>

AddPlaylist(p) ==
    \E sid \in SessionIds, pl \in PlaylistIds, body \in {"no_url", "malformed", "wellformed"} :
        AddPlaylistWith(p, sid, pl, body)

\* remove_playlist up to the delete: find_one of the session.
RemovePlaylist(p) ==
    /\ CanStart(p)
    /\ \E sid \in SessionIds, pl \in PlaylistIds :
         LET r == [Begin(p, "remove_playlist") EXCEPT !.sid = sid, !.pl = pl] IN
         procs' = [procs EXCEPT ![p] =
                     IF ~Found(sid) THEN Finish(r, "invalid_session")
                     ELSE [r EXCEPT !.pc = "rp_delete"]]
    /\ nreq' = nreq + 1
    /\ UNCHANGED <<sessions, tracks, nextId, now, tokExp, remoteRefresh, playlists>>

\* remove_playlist: delete_one({'playlist_id': playlist_id}); deleted_count 0
\* is logged and answered like a deletion.
RemoveDelete(p) ==
    /\ procs[p].pc = "rp_delete"
    /\ playlists' = [i \in DOMAIN playlists \ {procs[p].pl} |-> playlists[i]]
    /\ procs' = [procs EXCEPT ![p] = Finish(@, "ok")]
    /\ UNCHANGED <<sessions, tracks, nextId, now, tokExp, remoteRefresh, nreq>>

\* update_playlist_icon up to the lookup of the playlist: find_one of the
\* session.  hasIcon: the body has the key custom_icon.
UpdatePlaylistIcon(p) ==
    /\ CanStart(p)
    /\ \E sid \in SessionIds, pl \in PlaylistIds, hasIcon \in BOOLEAN, icon \in RequestIcons :
         LET r == [Begin(p, "update_playlist_icon") EXCEPT
                     !.sid = sid, !.pl = pl, !.icon = IF hasIcon THEN icon ELSE "none"] IN
         procs' = [procs EXCEPT ![p] =
                     IF ~Found(sid) THEN Finish(r, "invalid_session")
                     ELSE [r EXCEPT !.pc = "upi_find"]]
    /\ nreq' = nreq + 1
    /\ UNCHANGED <<sessions, tracks, nextId, now, tokExp, remoteRefresh, playlists>>

\* Mutant: the handler only tests that custom_icon is not empty.
IconAdmitted_NonEmpty(icon) == icon # ""

\* custom_icon in VALID_ICONS
IconAdmitted(icon) == icon \in VALID_ICONS

\* update_playlist_icon from the answer of playlists.find_one on: the
\* not-found answer, the body checks, the sending of the update.
UpiFind(p) ==
    /\ procs[p].pc = "upi_find"
    /\ procs' = [procs EXCEPT ![p] =
                   IF procs[p].pl \notin DOMAIN playlists THEN Finish(@, "not_found")
                   ELSE IF procs[p].icon = "none" THEN Finish(@, "icon_required")
                   ELSE IF ~IconAdmitted(procs[p].icon) THEN Finish(@, "invalid_icon")
                   ELSE [@ EXCEPT !.pc = "upi_update"]]
    /\ UNCHANGED <<sessions, tracks, nextId, now, tokExp, remoteRefresh, nreq, playlists>>

\* update_one({'playlist_id': playlist_id}, {'$set': {'custom_icon': ...}}):
\* no upsert, a missing document matches nothing; the answer is the success.
UpiUpdate(p) ==
    /\ procs[p].pc = "upi_update"
    /\ playlists' = IF procs[p].pl \in DOMAIN playlists
                      THEN [playlists EXCEPT ![procs[p].pl].custom_icon = procs[p].icon]
                      ELSE playlists
    /\ procs' = [procs EXCEPT ![p] = Finish(@, "ok")]
    /\ UNCHANGED <<sessions, tracks, nextId, now, tokExp, remoteRefresh, nreq>>

\* get_playlists: find({'expires_at': {'$gt': now}}), each document reported
\* as id, name and custom_icon (DEFAULT_ICON when the field is missing).
ListedPlaylists ==
    { [id |-> i, name |-> playlists[i].name,
       custom_icon |-> IF playlists[i].custom_icon = "unset"
                         THEN DEFAULT_ICON ELSE playlists[i].custom_icon] :
      i \in {j \in DOMAIN playlists : playlists[j].expires_at > now} }

\* The server after one sign-in (spotify_authorize, then spotify_callback
\* with a good code, at time 0), over a playlists collection that other
\* clients have filled.
RegistryInit ==
    /\ now = 0
    /\ sessions = [i \in {1} |-> Activated(NewSession(1), 1)]
    /\ tracks = [k \in SidStrings \X TrackIds |-> 0]
    /\ nextId = 2
    /\ tokExp = <<now + ExpiresIn>>
    /\ remoteRefresh = {1}
    /\ procs = [p \in Procs |-> IdleProc]
    /\ nreq = 0
    /\ playlists \in SeedRegistries

\* The playlist handlers, and time.
RegistryNext ==
    \/ \E p \in Procs : AddPlaylist(p)
    \/ \E p \in Procs : RemovePlaylist(p)
    \/ \E p \in Procs : RemoveDelete(p)
    \/ \E p \in Procs : UpdatePlaylistIcon(p)
    \/ \E p \in Procs : UpiFind(p)
    \/ \E p \in Procs : UpiUpdate(p)
    \/ Tick

RegistrySpec == RegistryInit /\ [][RegistryNext]_vars

\* The program while no client calls reset_game.
NextNoReset ==
    \/ \E p \in Procs : AuthorizeDelete(p)
    \/ \E p \in Procs : AuthorizeInsert(p)
    \/ \E p \in Procs : CallbackFind(p)
    \/ \E p \in Procs : CallbackExchange(p)
    \/ \E p \in Procs : GetNextTrack(p)
    \/ \E p \in Procs : PlayNextSong(p)
    \/ \E p \in Procs : GptFind(p)
    \/ \E p \in Procs : GptPlaylist(p)
    \/ \E p \in Procs : GptTracks(p)
    \/ \E p \in Procs : RtFind(p)
    \/ \E p \in Procs : RtWait(p)
    \/ \E p \in Procs : PtFind(p)
    \/ \E p \in Procs : PtDevices(p)
    \/ \E p \in Procs : PtPlay(p)
    \/ \E p \in Procs : Insert(p)
    \/ \E p \in Procs : Push(p)
    \/ Tick
    \/ Reap

SpecNoReset == Init /\ [][NextNoReset]_vars

\* ------------------------------------------------------------------ properties
\* Worker p has a refresh POST in flight: sent, its result not yet stored.
RefreshInFlight(p) == procs[p].pc = "rt_wait"

\* C1: at most one remote refresh-token call per session is in flight at any
\* time: two requests never both sit between sending the refresh call and
\* storing its result for the same session.
C1_SingleFlight ==
    \A p \in Procs : \A q \in Procs :
        (p # q /\ RefreshInFlight(p) /\ RefreshInFlight(q))
            => procs[p].sid # procs[q].sid

\* A callback has succeeded for state s: its worker holds the success answer
\* and the session it names is active.
Succeeded(q, s) ==
    /\ procs[q].pc = "done"
    /\ procs[q].op = "callback"
    /\ procs[q].result = "ok"
    /\ procs[q].st = s
    /\ Found(procs[q].sid)
    /\ sessions[procs[q].sid].is_active

\* Worker p takes up a callback (code, state) without error parameter.
CallbackArrives(p) == CallbackFind(p) /\ procs'[p].result # "error"

\* The callback ends with the invalid-state answer, no token request sent, no
\* session changed.
Rejected(p) ==
    /\ procs'[p].pc = "done"
    /\ procs'[p].result = "invalid_state"
    /\ sessions' = sessions
    /\ tokExp' = tokExp

\* C2 (as claimed): once a callback has succeeded for a state value s, every
\* later callback carrying s is rejected as invalid state, with no token
\* request and no session changed.
C2_SingleUse ==
    [][ \A p \in Procs : \A q \in Procs :
          (Succeeded(q, procs'[p].st) /\ CallbackArrives(p)) => Rejected(p) ]_vars

\* Worker p's callback activates the pending session it found.
Activates(p) ==
    /\ CallbackExchange(p)
    /\ Found(procs[p].sid)
    /\ ~sessions[procs[p].sid].is_active
    /\ sessions'[procs[p].sid].is_active

\* C2 (amended): a successful callback for s leaves no session holding s, and
\* a callback carrying a state that no pending session holds is rejected as
\* invalid state, with no token request and no session changed; so s is
\* refused from its activation on, until an authorize request draws s again
\* and inserts a new pending session with it.
C2_SingleUseUntilRedrawn ==
    [][ \A p \in Procs :
          /\ Activates(p) => \A i \in DOMAIN sessions' : sessions'[i].state # procs[p].st
          /\ (CallbackArrives(p) /\ PendingWithState(procs'[p].st) = {}) => Rejected(p) ]_vars

\* C2 witness: a callback has succeeded for s and another callback carrying s
\* holds the invalid-state answer.
C2_Witness ==
    \E p \in Procs : \E q \in Procs :
        /\ p # q
        /\ Succeeded(q, procs[p].st)
        /\ procs[p].pc = "done"
        /\ procs[p].op = "callback"
        /\ procs[p].result = "invalid_state"

\* C3: no two session documents hold the same non-null state value.
C3_UniqueState ==
    \A i \in DOMAIN sessions : \A j \in DOMAIN sessions :
        (i # j /\ sessions[i].state # Null) => sessions[i].state # sessions[j].state

\* C3 witness: two authorize requests drew the same state value; the insert
\* of one was refused while the other's pending session holds the value.
C3_Witness ==
    \E p \in Procs :
        /\ procs[p].pc = "done"
        /\ procs[p].op = "authorize"
        /\ procs[p].result = "setup_failed"
        /\ WithState(procs[p].st) # {}

\* Worker p ends its request in this step.
Ends(p) == procs[p].pc # "done" /\ procs'[p].pc = "done"

\* C4: a request that needs a bearer token for a session whose stored expiry
\* has passed and whose refresh token is valid gets the token refreshed: when
\* the request ends, the session no longer stores the expired token.
C4_ExpiredTokenRefreshed ==
    [][ \A p \in Procs :
          (Ends(p) /\ procs[p].stale # Null /\ procs[p].sid \in DOMAIN sessions')
              => sessions'[procs[p].sid].spotify_access_token # procs[p].stale ]_vars

\* Worker p sends a call to the remote resource API in this step (playlist
\* fetch, track listing, device listing, play command).
SendsCall(p) ==
    /\ procs'[p].pc \in {"gpt_playlist", "gpt_tracks", "pt_devices", "pt_play"}
    /\ procs'[p].pc # procs[p].pc

\* C5: no call to the remote resource API is sent with an access token whose
\* stored token_expires_at is not later than the current time.
C5_NoCallWithExpiredToken ==
    [][ \A p \in Procs :
          SendsCall(p) => /\ Found(procs[p].sid)
                          /\ now < sessions[procs[p].sid].token_expires_at ]_vars

\* A refresh for the session of worker p would succeed now.
RefreshWouldSucceed(p) ==
    /\ Found(procs[p].sid)
    /\ sessions[procs[p].sid].spotify_refresh_token \in remoteRefresh
    /\ CanIssue

\* C6: when the play command is answered 401 and a refresh would succeed, the
\* request does not end in the playback failure: it refreshes and retries.
C6_PlayRetriedAfter401 ==
    [][ \A p \in Procs :
          (procs[p].pc = "pt_play" /\ ~TokenValid(procs[p].tok) /\ RefreshWouldSucceed(p))
              => procs'[p].result # "play_failed" ]_vars

\* C7: one request issues at most one remote refresh call.
C7_AtMostOneRefresh == \A p \in Procs : procs[p].nref <= 1

\* The refresh POST of worker p is answered with a failure in this step.
RefreshFails(p) ==
    /\ procs[p].pc = "rt_wait"
    /\ procs'[p].pc # "rt_wait"
    /\ tokExp' = tokExp

\* C8: when the refresh call fails, the session document is left as it was
\* and the request ends with the failure reported: the caller does not go on
\* to use the token.
C8_RefreshFailureReported ==
    [][ \A p \in Procs :
          RefreshFails(p) => /\ sessions' = sessions
                             /\ procs'[p].pc = "done" ]_vars

\* The refresh POST of worker p is answered with a new access token in this
\* step, and the session document still exists.
RefreshSucceeds(p) ==
    /\ procs[p].pc = "rt_wait"
    /\ procs'[p].pc # "rt_wait"
    /\ Len(tokExp') = Len(tokExp) + 1
    /\ Found(procs[p].sid)

\* C9: after a successful refresh the document holds the new access token and
\* expiry, and its refresh token is the one of the answer when the answer
\* carries one (rotation), the stored one otherwise.
C9_RotatedRefreshTokenStored ==
    [][ \A p \in Procs :
          RefreshSucceeds(p) =>
            LET old == sessions[procs[p].sid]
                new == sessions'[procs[p].sid] IN
            /\ new.spotify_access_token = NextGrant
            /\ new.token_expires_at = now + ExpiresIn
            /\ new.spotify_refresh_token =
                 IF NextGrant \in remoteRefresh' THEN NextGrant
                                                ELSE old.spotify_refresh_token ]_vars

\* Worker p, serving get_next_track, stores the track record in this step.
GntInserts(p) ==
    /\ procs[p].op = "get_next_track"
    /\ procs[p].pc = "insert"
    /\ procs'[p].pc = "push"

\* Worker p, serving get_next_track, appends the id and answers in this step.
GntAnswers(p) ==
    /\ procs[p].op = "get_next_track"
    /\ procs[p].pc = "push"
    /\ procs'[p].pc = "done"

\* C10 (as claimed): a successful get_next_track on a session that is still
\* stored returns a track of the playlist's listing and leaves tracks_played
\* equal to its value before the call (the document the handler read on
\* entry) with that id appended.
C10_AppendedToValueBeforeCall ==
    [][ \A p \in Procs :
          (GntAnswers(p) /\ Found(procs[p].sid)) =>
            /\ procs'[p].result = "ok"
            /\ procs'[p].track \in RemoteListing[procs[p].pl]
            /\ sessions'[procs[p].sid].tracks_played
                 = Append(procs[p].tp0, procs'[p].track) ]_vars

\* C10 (amended): a successful get_next_track returns a track of the
\* playlist's listing, writes one track record for it owned by the session,
\* and appends that id to tracks_played as stored at the moment of the
\* append, changing nothing else; if the session document is gone by then,
\* nothing is appended and the answer is still the success.
C10_AppendedToStoredValue ==
    [][ \A p \in Procs :
          /\ GntInserts(p) =>
               /\ procs[p].track \in RemoteListing[procs[p].pl]
               /\ tracks' = [tracks EXCEPT ![<<Str(procs[p].sid), procs[p].track>>] = @ + 1]
          /\ GntAnswers(p) =>
               /\ procs'[p].result = "ok"
               /\ procs'[p].track = procs[p].track
               /\ procs'[p].track \in RemoteListing[procs[p].pl]
               /\ IF Found(procs[p].sid)
                    THEN sessions' = [sessions EXCEPT ![procs[p].sid].tracks_played =
                                        Append(@, procs[p].track)]
                    ELSE sessions' = sessions ]_vars

\* C10 witness: a get_next_track on an active session has answered with a
\* track whose id is the last of a tracks_played that had contents before,
\* and whose record the session owns.
C10_Witness ==
    \E p \in Procs :
        /\ procs[p].pc = "done"
        /\ procs[p].op = "get_next_track"
        /\ procs[p].result = "ok"
        /\ Found(procs[p].sid)
        /\ sessions[procs[p].sid].is_active
        /\ Len(sessions[procs[p].sid].tracks_played) >= 2
        /\ sessions[procs[p].sid].tracks_played[Len(sessions[procs[p].sid].tracks_played)]
             = procs[p].track
        /\ tracks[<<Str(procs[p].sid), procs[p].track>>] >= 1

\* Worker p serves one of the two track handlers.
Picking(p) == procs[p].op \in {"get_next_track", "play_next_song"}

\* Worker p is inside get_playlist_tracks (or the refresh_token it called).
Fetching(p) == procs[p].pc \in {"gpt_find", "gpt_playlist", "gpt_tracks", "rt_find", "rt_wait"}

\* The tracks_played of every stored session is what it was.
HistoryUnchanged ==
    /\ DOMAIN sessions' = DOMAIN sessions
    /\ \A i \in DOMAIN sessions : sessions'[i].tracks_played = sessions[i].tracks_played

\* C11: when the playlist fetch returns no track or fails, the handler
\* answers with the no-tracks error, writes no track record and leaves every
\* tracks_played as it was; a play command or a record write is only reached
\* with a track picked from a non-empty listing, and an empty listing is never
\* picked from.
C11_NoTracksNoEffect ==
    [][ \A p \in Procs :
          /\ (Picking(p) /\ Fetching(p) /\ Ends(p)) =>
               /\ procs'[p].result = "no_tracks"
               /\ procs'[p].track = Null
               /\ tracks' = tracks
               /\ HistoryUnchanged
          /\ (procs[p].pc = "gpt_tracks" /\ RemoteListing[procs[p].pl] = {}) =>
               procs'[p].pc \in {"gpt_tracks", "rt_find", "done"}
          /\ procs[p].pc \in {"pt_find", "pt_devices", "pt_play", "insert", "push"} =>
               procs[p].track \in RemoteListing[procs[p].pl] ]_vars

\* C11 witness: a track request for the playlist that lists nothing has been
\* answered with the no-tracks error on an active session that has a history.
C11_Witness ==
    \E p \in Procs :
        /\ procs[p].pc = "done"
        /\ Picking(p)
        /\ procs[p].result = "no_tracks"
        /\ Found(procs[p].sid)
        /\ sessions[procs[p].sid].is_active
        /\ sessions[procs[p].sid].playlist_theme = 2
        /\ sessions[procs[p].sid].tracks_played # << >>

\* Worker p, serving play_next_song, takes a step.
PnsSteps(p) == procs[p].op = "play_next_song" /\ procs'[p] # procs[p]

\* Neither collection's play history changes: no track record is written or
\* removed, every tracks_played is as it was.
NothingPersisted == tracks' = tracks /\ HistoryUnchanged

\* C12: play_next_song persists only after a successful play command.  With
\* no device listed the request ends with the no-device error and no play
\* command; a play command that is not answered 204 ends the request with
\* nothing written; the record write and the append are reached from the 204
\* answer only, and then the record of the picked track is written and its
\* id appended to the stored tracks_played.
C12_PersistOnlyAfterPlay ==
    [][ \A p \in Procs :
          /\ (PnsSteps(p) /\ procs[p].pc = "pt_devices") =>
               /\ NothingPersisted
               /\ \/ procs'[p].pc = "pt_play" /\ TokenValid(procs[p].tok)
                  \/ procs'[p].pc = "done" /\ procs'[p].result \in {"no_device", "play_failed"}
          /\ (PnsSteps(p) /\ procs[p].pc = "pt_play") =>
               /\ NothingPersisted
               /\ \/ procs'[p].pc = "insert" /\ TokenValid(procs[p].tok)
                  \/ procs'[p].pc = "done" /\ procs'[p].result = "play_failed"
          /\ (PnsSteps(p) /\ procs'[p].pc = "insert") => procs[p].pc = "pt_play"
          /\ (PnsSteps(p) /\ procs[p].pc = "insert") =>
               /\ procs'[p].pc = "push"
               /\ tracks' = [tracks EXCEPT ![<<Str(procs[p].sid), procs[p].track>>] = @ + 1]
               /\ sessions' = sessions
          /\ (PnsSteps(p) /\ procs'[p].pc = "push") => procs[p].pc = "insert"
          /\ (PnsSteps(p) /\ procs[p].pc = "push") =>
               /\ procs'[p].pc = "done" /\ procs'[p].result = "ok"
               /\ tracks' = tracks
               /\ Found(procs[p].sid) =>
                    sessions' = [sessions EXCEPT ![procs[p].sid].tracks_played =
                                   Append(@, procs[p].track)] ]_vars

\* C12 witness: on one active session a play_next_song has succeeded, its
\* track being the whole history and owning a record, and another one has
\* ended in the no-device or playback error.
C12_Witness ==
    \E p \in Procs : \E q \in Procs :
        /\ p # q
        /\ procs[p].pc = "done" /\ procs[p].op = "play_next_song" /\ procs[p].result = "ok"
        /\ procs[q].pc = "done" /\ procs[q].op = "play_next_song"
        /\ procs[q].result \in {"no_device", "play_failed"}
        /\ procs[q].sid = procs[p].sid
        /\ Found(procs[p].sid)
        /\ sessions[procs[p].sid].tracks_played = <<procs[p].track>>
        /\ tracks[<<Str(procs[p].sid), procs[p].track>>] = 1

\* Worker p's callback gets the failure of the token request.
ExchangeFails(p) ==
    /\ procs[p].pc = "cb_exchange"
    /\ procs'[p].pc = "done"
    /\ procs'[p].result # "ok"

\* The pending sessions that hold the state value s (written out, not through
\* the lookup of the handler).
HoldersOf(s) == {i \in DOMAIN sessions : sessions[i].state = s /\ ~sessions[i].is_active}

\* C13: a callback whose code exchange fails reports auth_failed and leaves
\* every session document as it was, so the matched session, if pending, is
\* still pending with its state value and without credentials; a callback
\* that arrives with the state value of a pending session is not rejected but
\* goes on to the exchange for that session, and a successful exchange
\* activates the session it matched.
C13_FailedExchangeKeepsPending ==
    [][ \A p \in Procs :
          /\ ExchangeFails(p) =>
               /\ procs'[p].result = "auth_failed"
               /\ sessions' = sessions
               /\ tokExp' = tokExp
               /\ \A i \in HoldersOf(procs[p].st) :
                    /\ i \in DOMAIN sessions'
                    /\ ~sessions'[i].is_active
                    /\ sessions'[i].state = procs[p].st
                    /\ sessions'[i].spotify_access_token = Null
                    /\ sessions'[i].spotify_refresh_token = Null
          /\ (CallbackArrives(p) /\ HoldersOf(procs'[p].st) # {}) =>
               /\ procs'[p].pc = "cb_exchange"
               /\ procs'[p].sid \in HoldersOf(procs'[p].st)
          /\ (procs[p].pc = "cb_exchange" /\ procs'[p].result = "ok" /\ Found(procs[p].sid)) =>
               /\ sessions'[procs[p].sid].is_active
               /\ sessions'[procs[p].sid].spotify_access_token # Null ]_vars

\* C13 witness: one callback holds the auth_failed answer for a session and
\* another callback for the same state value and session has activated it.
C13_Witness ==
    \E p \in Procs : \E q \in Procs :
        /\ procs[p].pc = "done" /\ procs[p].op = "callback" /\ procs[p].result = "auth_failed"
        /\ procs[q].pc = "done" /\ procs[q].op = "callback" /\ procs[q].result = "ok"
        /\ procs[q].sid = procs[p].sid /\ procs[q].st = procs[p].st
        /\ Found(procs[p].sid)
        /\ sessions[procs[p].sid].is_active

\* Worker p's reset_game returns (the step of delete_many and the answer).
ResetReturns(p) == procs[p].pc = "rs_delete" /\ procs'[p].pc = "done"

\* No track record is owned by session sid (session_id = str(_id)).
NoRecordsOf(sid) == \A t \in TrackIds : tracks[<<Str(sid), t>>] = 0

\* The session is as a reset leaves it.
IsReset(sid) ==
    /\ sessions[sid].tracks_played = << >>
    /\ sessions[sid].playlist_theme = Null
    /\ NoRecordsOf(sid)

\* No other worker is serving a request, and the $set of p's reset stands.
Alone(p) ==
    /\ \A q \in Procs \ {p} : procs[q].pc \in {"idle", "done"}
    /\ Found(procs[p].sid)
    /\ sessions[procs[p].sid].tracks_played = << >>
    /\ sessions[procs[p].sid].playlist_theme = Null

\* C14: reset_game is idempotent.  A reset that returns while no other
\* request is served (and none has written the session since its $set)
\* answers success and leaves the session without any track record of its
\* own, whatever string named the session; the $set of a reset leaves tracks_played empty and
\* playlist_theme null; and a reset of a session that is already reset
\* changes neither collection.
C14_ResetIdempotent ==
    [][ \A p \in Procs :
          /\ (ResetReturns(p) /\ Alone(p)) =>
               /\ procs'[p].result = "ok"
               /\ NoRecordsOf(procs[p].sid)'
               /\ (Found(procs[p].sid) /\ IsReset(procs[p].sid)) => tracks' = tracks
          /\ (ResetUpdate(p) /\ procs'[p].pc = "rs_delete") =>
               /\ sessions'[procs'[p].sid].tracks_played = << >>
               /\ sessions'[procs'[p].sid].playlist_theme = Null
               /\ IsReset(procs'[p].sid) => sessions' = sessions ]_vars

\* Every field of session i but tracks_played and playlist_theme is as it was.
CredentialsKept(i) ==
    /\ sessions'[i].spotify_access_token = sessions[i].spotify_access_token
    /\ sessions'[i].spotify_refresh_token = sessions[i].spotify_refresh_token
    /\ sessions'[i].token_expires_at = sessions[i].token_expires_at
    /\ sessions'[i].is_active = sessions[i].is_active
    /\ sessions'[i].created_at = sessions[i].created_at
    /\ sessions'[i].state = sessions[i].state

\* C15: reset_game on session S deletes every track record owned by S,
\* whichever accepted string named S in the request, and changes nothing
\* else: the $set step keeps S's credentials, activation status and
\* created_at, every other session document and every track record; the
\* delete step keeps every session document and every record of another
\* session, and leaves no record owned by S.
C15_ResetDeletesOwnRecordsOnly ==
    [][ \A p \in Procs :
          /\ (ResetUpdate(p) /\ procs'[p].pc = "rs_delete") =>
               /\ tracks' = tracks
               /\ DOMAIN sessions' = DOMAIN sessions
               /\ CredentialsKept(procs'[p].sid)
               /\ \A i \in DOMAIN sessions \ {procs'[p].sid} : sessions'[i] = sessions[i]
          /\ ResetReturns(p) =>
               /\ sessions' = sessions
               /\ \A k \in DOMAIN tracks :
                    tracks'[k] = IF ObjectId(k[1]) = procs[p].sid THEN 0 ELSE tracks[k] ]_vars

\* The number of occurrences of track t in the sequence.
Occurrences(seq, t) == Cardinality({n \in DOMAIN seq : seq[n] = t})

\* The requests on session sid that have picked t and written its record but
\* not yet sent the $push.
AwaitingPush(sid, t) ==
    Cardinality({p \in Procs : procs[p].pc = "push" /\ procs[p].sid = sid /\ procs[p].track = t})

\* Every id a request has stored a record for is in tracks_played as often
\* as it was picked, but for the requests whose $push is still to come.
EveryPickCounted ==
    \A sid \in DOMAIN sessions : \A t \in TrackIds :
        Occurrences(sessions[sid].tracks_played, t) + AwaitingPush(sid, t)
            = tracks[<<Str(sid), t>>]

\* tracks_played of a stored session only grows, at its end, by one id per
\* step.
GrowsByAppend ==
    \A sid \in DOMAIN sessions \cap DOMAIN sessions' :
        \/ sessions'[sid].tracks_played = sessions[sid].tracks_played
        \/ \E p \in Procs :
             /\ procs[p].pc = "push" /\ procs[p].sid = sid
             /\ procs'[p].result = "ok"
             /\ sessions'[sid].tracks_played
                  = Append(sessions[sid].tracks_played, procs'[p].track)

\* C16: while no reset is called, no appended id is lost.  However the
\* get_next_track and play_next_song requests on a session interleave, the
\* stored tracks_played holds each picked id once per request that picked it
\* (all of them once those requests have completed), and its earlier contents
\* stay in front.
C16_NoAppendLost == []EveryPickCounted /\ [][GrowsByAppend]_vars

\* C16 witness: two requests on one session have both answered with the same
\* track, and tracks_played holds it twice.
C16_Witness ==
    \E p \in Procs : \E q \in Procs :
        /\ p # q
        /\ procs[p].pc = "done" /\ Picking(p) /\ procs[p].result = "ok"
        /\ procs[q].pc = "done" /\ Picking(q) /\ procs[q].result = "ok"
        /\ procs[q].sid = procs[p].sid /\ procs[q].track = procs[p].track
        /\ Found(procs[p].sid)
        /\ sessions[procs[p].sid].tracks_played = <<procs[p].track, procs[q].track>>

\* Worker p, serving update_playlist_icon, takes a step.
UpiSteps(p) == procs[p].op = "update_playlist_icon" /\ procs'[p] # procs[p]

\* C17: update_playlist_icon writes only a listed icon, only into an existing
\* entry, and only its custom_icon.  For an absent playlist id the answer is
\* the not-found error; for a stored entry and an icon outside the list of
\* eight the answer is the invalid-icon error (the missing-icon error when
\* the body has none); neither changes the collection.  The update step is
\* reached with a listed icon only, creates no entry, and changes nothing
\* but the custom_icon of the entry named, which becomes the request's icon.
C17_IconUpdateGuarded ==
    [][ \A p \in Procs :
          /\ (UpiSteps(p) /\ procs[p].pc # "upi_update") => playlists' = playlists
          /\ (UpiSteps(p) /\ procs[p].pc = "upi_find") =>
               /\ procs[p].pl \notin DOMAIN playlists =>
                    procs'[p].pc = "done" /\ procs'[p].result = "not_found"
               /\ (procs[p].pl \in DOMAIN playlists /\ procs[p].icon \in RequestIcons \ VALID_ICONS) =>
                    procs'[p].pc = "done" /\ procs'[p].result = "invalid_icon"
               /\ (procs[p].pl \in DOMAIN playlists /\ procs[p].icon = "none") =>
                    procs'[p].pc = "done" /\ procs'[p].result = "icon_required"
          /\ (UpiSteps(p) /\ procs[p].pc = "upi_update") =>
               /\ procs[p].icon \in VALID_ICONS
               /\ procs'[p].result = "ok"
               /\ DOMAIN playlists' = DOMAIN playlists
               /\ \A i \in DOMAIN playlists :
                    /\ playlists'[i].name = playlists[i].name
                    /\ playlists'[i].expires_at = playlists[i].expires_at
                    /\ playlists'[i].custom_icon =
                         IF i = procs[p].pl THEN procs[p].icon ELSE playlists[i].custom_icon ]_vars

\* C17 witness: one update_playlist_icon has answered the success and an
\* entry carries the icon "guitar", which no entry had at the start, with a
\* name and expiry of the start; another one holds the invalid-icon answer.
C17_Witness ==
    \E p \in Procs : \E q \in Procs :
        /\ procs[p].pc = "done" /\ procs[p].op = "update_playlist_icon" /\ procs[p].result = "ok"
        /\ procs[q].pc = "done" /\ procs[q].op = "update_playlist_icon"
        /\ procs[q].result = "invalid_icon"
        /\ \E i \in DOMAIN playlists :
             /\ playlists[i].custom_icon = "guitar"
             /\ \E e \in SeedEntries :
                  playlists[i].name = e.name /\ playlists[i].expires_at = e.expires_at

\* C18: add_playlist with a well-formed playlist URL (the metadata fetch
\* succeeding) on an existing session answers the success, and afterwards the
\* collection holds an entry for the playlist id, which get_playlists lists
\* while the entry has not expired.
C18_AddedPlaylistListed ==
    [][ \A p \in Procs : \A sid \in SessionIds : \A pl \in PlaylistIds :
          (AddPlaylistWith(p, sid, pl, "wellformed") /\ Found(sid)) =>
              /\ procs'[p].result = "ok"
              /\ pl \in DOMAIN playlists'
              /\ playlists'[pl].expires_at > now' =>
                   \E e \in ListedPlaylists' : e.id = pl ]_vars

\* Worker p's callback has found its pending session and has the code
\* exchange under way.
Exchanging(p) == procs[p].pc = "cb_exchange"

\* Worker p's callback stores a credential bundle in the session it found.
StoresBundle(p) ==
    /\ Exchanging(p)
    /\ procs'[p].result = "ok"
    /\ Found(procs[p].sid)

\* C19: a session becomes active exactly once.  Of the callbacks that carry
\* one state value, overlapping or not, at most one exchanges its code and
\* stores a bundle: a callback stores its bundle only in a session that is
\* still pending and holds none, so that a stored bundle is never
\* overwritten by another callback.
C19_ActivatedOnce ==
    [][ \A p \in Procs :
          StoresBundle(p) =>
              /\ ~sessions[procs[p].sid].is_active
              /\ sessions[procs[p].sid].spotify_access_token = Null ]_vars

\* The document is a pending session: not active, holding a state value and
\* no token.
IsPending(doc) ==
    /\ ~doc.is_active
    /\ doc.state # Null
    /\ doc.spotify_access_token = Null
    /\ doc.spotify_refresh_token = Null

\* The document is an active session: active, its state value cleared, both
\* tokens and the expiry stored.
IsActive(doc) ==
    /\ doc.is_active
    /\ doc.state = Null
    /\ doc.spotify_access_token # Null
    /\ doc.spotify_refresh_token # Null
    /\ doc.token_expires_at # Null

\* C20: activation is atomic.  In every reachable state every stored session
\* is either pending or active in all its fields, so no request sees a mix
\* of the two; and a session that is active is still active after every step
\* that leaves it in the store.
C20_PendingOrActive ==
    /\ [](\A i \in DOMAIN sessions : IsPending(sessions[i]) \/ IsActive(sessions[i]))
    /\ [][ \A i \in DOMAIN sessions \cap DOMAIN sessions' :
             IsActive(sessions[i]) => IsActive(sessions'[i]) ]_vars

\* C20 witness: a callback has activated one session while another session
\* is pending in the store.
C20_Witness ==
    \E p \in Procs : \E i \in DOMAIN sessions :
        /\ procs[p].pc = "done" /\ procs[p].op = "callback" /\ procs[p].result = "ok"
        /\ Found(procs[p].sid)
        /\ IsActive(sessions[procs[p].sid])
        /\ IsPending(sessions[i])

\* The remote service would still answer a refresh for the session: the
\* document stores a refresh token the service honours.
Refreshable(doc) == doc.spotify_refresh_token \in remoteRefresh

\* C21: background expiry never removes a session that can still be
\* refreshed.  A stored session whose token_expires_at has passed and whose
\* refresh token the remote service still honours stays in the store at
\* every step, and so does a session for which a refresh POST is in flight.
C21_RefreshableNotReaped ==
    [][ \A i \in DOMAIN sessions :
          /\ (Expired(sessions[i]) /\ Refreshable(sessions[i])) => i \in DOMAIN sessions'
          /\ (\E p \in Procs : RefreshInFlight(p) /\ procs[p].sid = i) =>
               i \in DOMAIN sessions' ]_vars

\* Worker p's get_next_track or play_next_song ends in one of its errors.
PickFails(p) ==
    /\ Picking(p)
    /\ Ends(p)
    /\ procs'[p].result \in {"no_tracks", "no_device", "play_failed"}

\* C22: a get_next_track or play_next_song that ends in an error (no tracks,
\* no device, playback failure) leaves the session record as it was before
\* the call, playlist_theme included: when the request ends, the stored
\* session has the playlist_theme it had when the request found it.
C22_FailedPickKeepsTheme ==
    [][ \A p \in Procs :
          (PickFails(p) /\ Found(procs[p].sid)) =>
              sessions'[procs[p].sid].playlist_theme = procs[p].th0 ]_vars

\* Worker p's spotify_authorize runs its delete_one.
AuthDeletes(p) == AuthorizeDelete(p)

\* Worker p's spotify_authorize runs its insert_one and answers.
AuthInserts(p) == procs[p].pc = "auth_insert" /\ procs'[p].pc = "done"

\* Every session stored before the step is stored after it, unchanged.
AllSessionsKept ==
    /\ DOMAIN sessions \subseteq DOMAIN sessions'
    /\ \A i \in DOMAIN sessions : sessions'[i] = sessions[i]

\* The step adds exactly one session, which is pending and holds state s.
OnePendingAdded(s) ==
    \E n \in DOMAIN sessions' \ DOMAIN sessions :
        /\ DOMAIN sessions' = DOMAIN sessions \cup {n}
        /\ IsPending(sessions'[n])
        /\ sessions'[n].state = s

\* C23 (as claimed): spotify_authorize adds exactly one new pending session
\* and leaves every session that was stored before in the store, unchanged,
\* whatever state value it draws.
C23_AuthorizeOnlyAdds ==
    [][ \A p \in Procs :
          /\ AuthDeletes(p) => AllSessionsKept
          /\ AuthInserts(p) => AllSessionsKept /\ OnePendingAdded(procs[p].st) ]_vars

\* C23 (amended): spotify_authorize removes at most one session, and only a
\* pending one that holds the state value it has drawn; every other session,
\* and every active session, stays in the store unchanged.  Its insert adds
\* exactly one pending session with that value and answers the redirect, or,
\* when another session holds the value by then, adds none and answers the
\* setup error.
C23_AuthorizeReplacesSameState ==
    [][ \A p \in Procs :
          /\ AuthDeletes(p) =>
               /\ DOMAIN sessions' \subseteq DOMAIN sessions
               /\ Cardinality(DOMAIN sessions \ DOMAIN sessions') <= 1
               /\ \A i \in DOMAIN sessions' : sessions'[i] = sessions[i]
               /\ \A i \in DOMAIN sessions \ DOMAIN sessions' :
                    IsPending(sessions[i]) /\ sessions[i].state = procs'[p].st
               /\ (\E i \in DOMAIN sessions : sessions[i].state = procs'[p].st) =>
                    DOMAIN sessions' # DOMAIN sessions
          /\ AuthInserts(p) =>
               /\ AllSessionsKept
               /\ IF \E i \in DOMAIN sessions : sessions[i].state = procs[p].st
                    THEN sessions' = sessions /\ procs'[p].result = "setup_failed"
                    ELSE OnePendingAdded(procs[p].st) /\ procs'[p].result = "redirect" ]_vars

\* C23 witness: two spotify_authorize requests drew the same state value;
\* the later one has answered the redirect and its pending session is
\* stored, the session of the earlier one is gone.
C23_Witness ==
    \E p \in Procs : \E q \in Procs :
        /\ p # q
        /\ procs[p].pc = "done" /\ procs[p].op = "authorize" /\ procs[p].result = "redirect"
        /\ procs[q].pc = "done" /\ procs[q].op = "authorize" /\ procs[q].result = "redirect"
        /\ procs[q].st = procs[p].st
        /\ Found(procs[p].sid) /\ IsPending(sessions[procs[p].sid])
        /\ ~Found(procs[q].sid)

\* C24: track picks require an active session.  In every reachable state a
\* stored session that is still pending has an empty tracks_played and owns
\* no track record; and a get_next_track or play_next_song that reads a
\* pending session for its token ends there with the no-tracks answer,
\* before any remote call, pick, record write or append.
C24_PendingHasNoHistory ==
    /\ [](\A i \in DOMAIN sessions :
            IsPending(sessions[i]) =>
                sessions[i].tracks_played = << >> /\ NoRecordsOf(i))
    /\ [][ \A p \in Procs :
             (procs[p].pc = "gpt_find" /\ procs'[p] # procs[p]
                /\ Found(procs[p].sid) /\ IsPending(sessions[procs[p].sid])) =>
                 /\ procs'[p].pc = "done"
                 /\ procs'[p].result = "no_tracks"
                 /\ tracks' = tracks
                 /\ sessions' = sessions ]_vars

\* C24 witness: a get_next_track or play_next_song on a pending session has
\* ended with the no-tracks answer; the session, which the request reached
\* (its playlist_theme is set), is still pending, without history or record.
C24_Witness ==
    \E p \in Procs :
        /\ procs[p].pc = "done" /\ Picking(p) /\ procs[p].result = "no_tracks"
        /\ Found(procs[p].sid)
        /\ IsPending(sessions[procs[p].sid])
        /\ sessions[procs[p].sid].playlist_theme # Null
        /\ sessions[procs[p].sid].tracks_played = << >>
        /\ NoRecordsOf(procs[p].sid)

\* Every id in the session's tracks_played has a track record owned by the
\* session, and every track record owned by the session has its id in
\* tracks_played.
HistoryMatchesRecords(sid) ==
    \A t \in TrackIds :
        (Occurrences(sessions[sid].tracks_played, t) > 0) <=> (tracks[<<Str(sid), t>>] > 0)

\* Worker p completes a reset_game (called with the session id as the store
\* prints it), a get_next_track or a play_next_song, and no other request
\* is being served.
LastCompletes(p) ==
    /\ Ends(p)
    /\ \/ Picking(p)
       \/ procs[p].op = "reset" /\ procs[p].form = "lower"
    /\ \A q \in Procs \ {p} : procs[q].pc \in {"idle", "done"}

\* C25: history and records stay consistent under reset.  However a
\* reset_game and a get_next_track or play_next_song on one session
\* interleave, once they have completed and while the session is stored,
\* tracks_played and the session's track records name the same ids.
C25_HistoryMatchesRecords ==
    [][ \A p \in Procs :
          (LastCompletes(p) /\ procs[p].sid \in DOMAIN sessions') =>
              HistoryMatchesRecords(procs[p].sid)' ]_vars
====
